---- MODULE Spec2Model ----
(***************************************************************************)
(* Model of packages/vite/src/node/cli.ts: the command registrations, the *)
(* global option filter cleanOptions, and the four command handlers with  *)
(* their try/catch error paths.                                            *)
(*                                                                         *)
(* An option bag is a function from a finite set of keys to values.  A    *)
(* key that is present with the value undefined is different from a key   *)
(* that is absent.  Objects live in a heap indexed by references, so that *)
(* copying ({ ...options }) and aliasing are different things.            *)
(***************************************************************************)
EXTENDS Integers, Sequences, FiniteSets, TLC

\* Largest number of keys in the option bag handed to a handler.
MaxKeys == 2

Undefined == "undefined"

\* Keys of GlobalCLIOptions, in the order cleanOptions deletes them.
GlobalCLIOptions ==
  << "--", "debug", "d", "filter", "f", "config", "c", "root", "base", "r",
     "mode", "m", "logLevel", "l", "clearScreen" >>

\* Command-specific keys used by the handlers.
SpecificKeys == { "minify", "force", "port", "open", "outDir" }

Range(s) == { s[i] : i \in DOMAIN s }

Keys == Range(GlobalCLIOptions) \cup SpecificKeys

\* Values a parsed flag can carry.  The argument parser sets a key only for
\* a flag that is present, so no key is present with the value undefined.
ValuesOf(k) ==
  CASE k = "minify"   -> { "true", "false", "terser" }
    [] k = "force"    -> { "true" }
    [] k = "logLevel" -> { "silent", "bogus" }
    [] k = "--"       -> { "[]" }
    [] OTHER          -> { "v" }

EmptyBag == [k \in {} |-> Undefined]

\* Property read: options.k
Get(b, k) == IF k \in DOMAIN b THEN b[k] ELSE Undefined

\* delete obj.k on the object at reference r
Delete(h, r, k) ==
  [h EXCEPT ![r] = [j \in (DOMAIN h[r]) \ {k} |-> h[r][j]]]

\* DeleteAll stopping one key short: clearScreen survives.
RECURSIVE DeleteAllOffByOne(_, _, _, _)
DeleteAllOffByOne(h, r, ks, i) ==
  IF i >= Len(ks) THEN h
  ELSE DeleteAllOffByOne(Delete(h, r, ks[i]), r, ks, i + 1)

RECURSIVE DeleteAll(_, _, _, _)
DeleteAll(h, r, ks, i) ==
  IF i > Len(ks) THEN h ELSE DeleteAll(Delete(h, r, ks[i]), r, ks, i + 1)

\* const ret = options: the deletes then hit the caller's object.
SpreadAlias(h, o) == [heap |-> h, ret |-> o]

\* const ret = { ...options }: a fresh object holding every own key of options
Spread(h, o) ==
  LET r == Cardinality(DOMAIN h) + 1
  IN  [heap |-> h @@ (r :> h[o]), ret |-> r]

\* cleanOptions(options): the heap after the call and the reference returned
cleanOptions(h, o) ==
  LET s == Spread(h, o)
  IN  [heap |-> DeleteAll(s.heap, s.ret, GlobalCLIOptions, 1), ret |-> s.ret]

\* Words that can stand in the command position of argv ("" = none given).
Words == { "serve", "build", "optimize", "preview", "foo" }

\* Values a rejected promise or a throw can carry.
ErrorObject == "Error"
Thrown == { ErrorObject, "null", Undefined }
Outcomes == { "ok" } \cup Thrown

\* Option bags the argument parser can hand over: at most MaxKeys keys.
Bags ==
  UNION { { b \in [d -> UNION { ValuesOf(k) : k \in Keys }] :
              \A k \in d : b[k] \in ValuesOf(k) }
          : d \in { s \in SUBSET Keys : Cardinality(s) <= MaxKeys } }

\* Positional arguments of argv: nothing, a word, or a word and a directory.
Args ==
  { << >> } \cup { << w >> : w \in Words } \cup { << w, "dir" >> : w \in Words }

VARIABLES
  input,       \* tokenized argv: [args, options]
  pc,          \* position of the process
  matched,     \* command selected by cli.parse ("" before)
  root,        \* positional handed to the handler
  heap,        \* objects: reference -> bag
  options,     \* reference of the handler's options argument (0 before)
  ret,         \* reference returned by cleanOptions (0 before)
  loaded,      \* subsystem modules loaded so far
  calls,       \* calls made to the external collaborators, in order
  config,      \* inline config that resolveConfig resolved (empty before)
  e,           \* value caught or in flight ("" when none)
  log,         \* lines handed to logger.error
  handlersRun, \* number of command actions started
  exited,      \* process.exit happened or the process ended
  exitStatus

vars == << input, pc, matched, root, heap, options, ret, loaded, calls, config,
           e, log, handlersRun, exited, exitStatus >>

\* The registry with the dev command registered as 'serve [root]' instead of
\* as the default command.
CommandsNoDefault ==
  << [name |-> "serve",    aliasNames |-> {},          action |-> "serve"],
     [name |-> "build",    aliasNames |-> {},          action |-> "build"],
     [name |-> "optimize", aliasNames |-> {},          action |-> "optimize"],
     [name |-> "preview",  aliasNames |-> {},          action |-> "preview"] >>

\* The commands registered on cli, in registration order.  The first one is
\* the default command: its name is empty and "serve" is its alias.
Commands ==
  << [name |-> "",         aliasNames |-> { "serve" }, action |-> "serve"],
     [name |-> "build",    aliasNames |-> {},          action |-> "build"],
     [name |-> "optimize", aliasNames |-> {},          action |-> "optimize"],
     [name |-> "preview",  aliasNames |-> {},          action |-> "preview"] >>

isMatched(c, w) == c.name = w \/ w \in c.aliasNames

First(a) == IF Len(a) > 0 THEN a[1] ELSE Undefined

\* Command selection of cli.parse: a command matched by name or alias takes
\* the remaining positionals; otherwise the default command takes them all.
parse(args) ==
  LET byName == { i \in DOMAIN Commands :
                    Len(args) > 0 /\ isMatched(Commands[i], args[1]) }
      default == { i \in DOMAIN Commands : Commands[i].name = "" }
  IN  IF byName # {}
        THEN [command |-> Commands[CHOOSE i \in byName : TRUE].action,
              root |-> First(Tail(args))]
        ELSE IF default # {}
          THEN [command |-> Commands[CHOOSE i \in default : TRUE].action,
                root |-> First(args)]
          ELSE [command |-> "", root |-> Undefined]

Call(fn, cfg, payload, a2, a3, outcome) ==
  [fn |-> fn, config |-> cfg, payload |-> payload, a2 |-> a2, a3 |-> a3,
   outcome |-> outcome]

Line(level, context, detail) ==
  [level |-> level, context |-> context, detail |-> detail]

Init ==
  /\ input \in [args : Args, options : Bags]
  /\ pc = "start"
  /\ matched = ""
  /\ root = Undefined
  /\ heap = << >>
  /\ options = 0
  /\ ret = 0
  /\ loaded = {}
  /\ calls = << >>
  /\ config = EmptyBag
  /\ e = ""
  /\ log = << >>
  /\ handlersRun = 0
  /\ exited = FALSE
  /\ exitStatus = 0

\* Evaluation of the module's static imports: ./build and ./server are
\* imported for their types only, ./preview for the preview function.
Startup ==
  /\ pc = "start"
  /\ pc' = "idle"
  /\ loaded' = loaded \cup { "preview" }
  /\ UNCHANGED << input, matched, root, heap, options, ret, calls, config, e,
                  log, handlersRun, exited, exitStatus >>

\* cli.parse(): select the command and build the handler's arguments.
Parse ==
  /\ pc = "idle"
  /\ pc' = "parsed"
  /\ matched' = parse(input.args).command
  /\ root' = parse(input.args).root
  /\ heap' = << input.options >>
  /\ options' = 1
  /\ UNCHANGED << input, ret, loaded, calls, config, e, log, handlersRun,
                  exited, exitStatus >>

\* cli.parse() runs the action of the matched command up to its first await;
\* with no matched command nothing runs and the process ends.
RunMatchedCommand ==
  /\ pc = "parsed"
  /\ IF matched = ""
       THEN /\ pc' = "done"
            /\ exited' = TRUE
            /\ UNCHANGED handlersRun
       ELSE /\ pc' = matched
            /\ handlersRun' = handlersRun + 1
            /\ UNCHANGED exited
  /\ UNCHANGED << input, matched, root, heap, options, ret, loaded, calls,
                  config, e, log, exitStatus >>

\* A rejected `await import(...)` standing outside the try block, or an error
\* raised inside a catch block, rejects the promise the action returned.
Reject(v) ==
  /\ pc' = "rejected"
  /\ e' = v

\* createLogger(level): never throws; a level that is not one of the known
\* ones falls back to the default level.
createLogger(level) ==
  [level |-> IF level \in { "silent", "error", "warn", "all" } THEN level ELSE "default"]

\* catch (e) { createLogger(options.logLevel).error(chalk.red(`...${e.stack}`));
\*             process.exit(1) }
\* Reading e.stack of null or undefined raises a TypeError before error() runs.
CatchBlock(context) ==
  IF e \in { "null", Undefined }
    THEN /\ Reject("TypeError")
         /\ UNCHANGED << log, exited, exitStatus >>
    ELSE /\ log' = Append(log, Line(createLogger(Get(heap[options], "logLevel")).level,
                                     context, e))
         /\ pc' = "done"
         /\ exited' = TRUE
         /\ exitStatus' = 1
         /\ UNCHANGED e

\* Inline config literal shared by serve and build.
InlineConfig(o) ==
  [k \in { "root", "base", "mode", "configFile", "logLevel", "clearScreen" } |->
     CASE k = "root"        -> root
       [] k = "base"        -> Get(o, "base")
       [] k = "mode"        -> Get(o, "mode")
       [] k = "configFile"  -> Get(o, "config")
       [] k = "logLevel"    -> Get(o, "logLevel")
       [] k = "clearScreen" -> Get(o, "clearScreen")]

\* The literal of serve and build copied over: mode goes to the resolver too.
ResolveInlineConfigWithMode(o) ==
  [k \in { "root", "base", "mode", "configFile", "logLevel" } |->
     CASE k = "root"        -> root
       [] k = "base"        -> Get(o, "base")
       [] k = "mode"        -> Get(o, "mode")
       [] k = "configFile"  -> Get(o, "config")
       [] k = "logLevel"    -> Get(o, "logLevel")]

\* Inline config literal handed to resolveConfig by optimize and preview.
ResolveInlineConfig(o) ==
  [k \in { "root", "base", "configFile", "logLevel" } |->
     CASE k = "root"        -> root
       [] k = "base"        -> Get(o, "base")
       [] k = "configFile"  -> Get(o, "config")
       [] k = "logLevel"    -> Get(o, "logLevel")]

-----------------------------------------------------------------------------
\* serve (default command)

ServeImport ==
  /\ pc = "serve"
  /\ \E out \in Outcomes :
       IF out = "ok"
         THEN /\ loaded' = loaded \cup { "server" }
              /\ pc' = "serve:createServer"
              /\ UNCHANGED e
         ELSE /\ Reject(out)
              /\ UNCHANGED loaded
  /\ UNCHANGED << input, matched, root, heap, options, ret, calls, config, log,
                  handlersRun, exited, exitStatus >>

ServeCreateServer ==
  /\ pc = "serve:createServer"
  /\ LET inline == InlineConfig(heap[options])
         c == cleanOptions(heap, options)
     IN  /\ heap' = c.heap
         /\ ret' = c.ret
         /\ \E out \in Outcomes :
              /\ calls' = Append(calls, Call("createServer", inline,
                                             c.heap[c.ret], "", "", out))
              /\ IF out = "ok"
                   THEN pc' = "serve:listen" /\ UNCHANGED e
                   ELSE pc' = "serve:catch" /\ e' = out
  /\ UNCHANGED << input, matched, root, options, loaded, config, log,
                  handlersRun, exited, exitStatus >>

\* await server.listen(): on success the process stays alive serving.
ServeListen ==
  /\ pc = "serve:listen"
  /\ \E out \in Outcomes :
       /\ calls' = Append(calls, Call("listen", EmptyBag, EmptyBag, "", "", out))
       /\ IF out = "ok"
            THEN pc' = "serving" /\ UNCHANGED e
            ELSE pc' = "serve:catch" /\ e' = out
  /\ UNCHANGED << input, matched, root, heap, options, ret, loaded, config, log,
                  handlersRun, exited, exitStatus >>

ServeCatch ==
  /\ pc = "serve:catch"
  /\ CatchBlock("error when starting dev server")
  /\ UNCHANGED << input, matched, root, heap, options, ret, loaded, calls,
                  config, handlersRun >>

-----------------------------------------------------------------------------
\* build

\* const { build } = await import('./build'); const buildOptions = cleanOptions(options)
BuildImport ==
  /\ pc = "build"
  /\ \E out \in Outcomes :
       IF out = "ok"
         THEN /\ loaded' = loaded \cup { "build" }
              /\ heap' = cleanOptions(heap, options).heap
              /\ ret' = cleanOptions(heap, options).ret
              /\ pc' = "build:build"
              /\ UNCHANGED e
         ELSE /\ Reject(out)
              /\ UNCHANGED << loaded, heap, ret >>
  /\ UNCHANGED << input, matched, root, options, calls, config, log,
                  handlersRun, exited, exitStatus >>

\* BuildCall with minify spelled out in the payload: build: { ...buildOptions,
\* minify: options.minify }.
BuildCallExplicitMinify ==
  /\ pc = "build:build"
  /\ \E out \in Outcomes :
       /\ calls' = Append(calls, Call("build", InlineConfig(heap[options]),
                                      [k \in DOMAIN heap[ret] \cup { "minify" } |->
                                         Get(heap[ret], k)],
                                      "", "", out))
       /\ IF out = "ok"
            THEN pc' = "done" /\ exited' = TRUE /\ UNCHANGED e
            ELSE pc' = "build:catch" /\ e' = out /\ UNCHANGED exited
  /\ UNCHANGED << input, matched, root, heap, options, ret, loaded, config, log,
                  handlersRun, exitStatus >>

\* await build({...}): on success nothing is left to do and the process ends.
BuildCall ==
  /\ pc = "build:build"
  /\ \E out \in Outcomes :
       /\ calls' = Append(calls, Call("build", InlineConfig(heap[options]),
                                      heap[ret], "", "", out))
       /\ IF out = "ok"
            THEN pc' = "done" /\ exited' = TRUE /\ UNCHANGED e
            ELSE pc' = "build:catch" /\ e' = out /\ UNCHANGED exited
  /\ UNCHANGED << input, matched, root, heap, options, ret, loaded, config, log,
                  handlersRun, exitStatus >>

BuildCatch ==
  /\ pc = "build:catch"
  /\ CatchBlock("error during build")
  /\ UNCHANGED << input, matched, root, heap, options, ret, loaded, calls,
                  config, handlersRun >>

-----------------------------------------------------------------------------
\* optimize

OptimizeImport ==
  /\ pc = "optimize"
  /\ \E out \in Outcomes :
       IF out = "ok"
         THEN /\ loaded' = loaded \cup { "optimizer" }
              /\ pc' = "optimize:resolveConfig"
              /\ UNCHANGED e
         ELSE /\ Reject(out)
              /\ UNCHANGED loaded
  /\ UNCHANGED << input, matched, root, heap, options, ret, calls, config, log,
                  handlersRun, exited, exitStatus >>

OptimizeResolveConfig ==
  /\ pc = "optimize:resolveConfig"
  /\ \E out \in Outcomes :
       /\ calls' = Append(calls, Call("resolveConfig",
                                      ResolveInlineConfig(heap[options]),
                                      EmptyBag, "build", "development", out))
       /\ IF out = "ok"
            THEN /\ config' = ResolveInlineConfig(heap[options])
                 /\ pc' = "optimize:optimizeDeps"
                 /\ UNCHANGED e
            ELSE /\ pc' = "optimize:catch"
                 /\ e' = out
                 /\ UNCHANGED config
  /\ UNCHANGED << input, matched, root, heap, options, ret, loaded, log,
                  handlersRun, exited, exitStatus >>

\* await optimizeDeps(config, options.force, true)
OptimizeDeps ==
  /\ pc = "optimize:optimizeDeps"
  /\ \E out \in Outcomes :
       /\ calls' = Append(calls, Call("optimizeDeps", config, EmptyBag,
                                      Get(heap[options], "force"), "true", out))
       /\ IF out = "ok"
            THEN pc' = "done" /\ exited' = TRUE /\ UNCHANGED e
            ELSE pc' = "optimize:catch" /\ e' = out /\ UNCHANGED exited
  /\ UNCHANGED << input, matched, root, heap, options, ret, loaded, config, log,
                  handlersRun, exitStatus >>

OptimizeCatch ==
  /\ pc = "optimize:catch"
  /\ CatchBlock("error when optimizing deps")
  /\ UNCHANGED << input, matched, root, heap, options, ret, loaded, calls,
                  config, handlersRun >>

-----------------------------------------------------------------------------
\* preview

\* The inline config carries the nested override server: { open: options.open }.
PreviewResolveConfig ==
  /\ pc = "preview"
  /\ \E out \in Outcomes :
       /\ calls' = Append(calls, Call("resolveConfig",
                                      ResolveInlineConfig(heap[options]),
                                      [k \in { "open" } |-> Get(heap[options], "open")],
                                      "serve", "development", out))
       /\ IF out = "ok"
            THEN /\ config' = ResolveInlineConfig(heap[options])
                 /\ pc' = "preview:preview"
                 /\ UNCHANGED e
            ELSE /\ pc' = "preview:catch"
                 /\ e' = out
                 /\ UNCHANGED config
  /\ UNCHANGED << input, matched, root, heap, options, ret, loaded, log,
                  handlersRun, exited, exitStatus >>

\* await preview(config, options.port): on success the process stays alive.
PreviewCall ==
  /\ pc = "preview:preview"
  /\ \E out \in Outcomes :
       /\ calls' = Append(calls, Call("preview", config, EmptyBag,
                                      Get(heap[options], "port"), "", out))
       /\ IF out = "ok"
            THEN pc' = "serving" /\ UNCHANGED e
            ELSE pc' = "preview:catch" /\ e' = out
  /\ UNCHANGED << input, matched, root, heap, options, ret, loaded, config, log,
                  handlersRun, exited, exitStatus >>

PreviewCatch ==
  /\ pc = "preview:catch"
  /\ CatchBlock("error when starting preview server")
  /\ UNCHANGED << input, matched, root, heap, options, ret, loaded, calls,
                  config, handlersRun >>

-----------------------------------------------------------------------------

\* cli.parse() drops the promise the action returns.  What the runtime does
\* with the unhandled rejection depends on its version: it warns and the
\* process later ends with status 0, or it prints the error and ends with 1.
\* Nothing goes through the logger.
UnhandledRejection ==
  /\ pc = "rejected"
  /\ pc' = "done"
  /\ exited' = TRUE
  /\ exitStatus' \in { 0, 1 }
  /\ UNCHANGED << input, matched, root, heap, options, ret, loaded, calls,
                  config, e, log, handlersRun >>

Next ==
  \/ Startup
  \/ Parse
  \/ RunMatchedCommand
  \/ ServeImport
  \/ ServeCreateServer
  \/ ServeListen
  \/ ServeCatch
  \/ BuildImport
  \/ BuildCall
  \/ BuildCatch
  \/ OptimizeImport
  \/ OptimizeResolveConfig
  \/ OptimizeDeps
  \/ OptimizeCatch
  \/ PreviewResolveConfig
  \/ PreviewCall
  \/ PreviewCatch
  \/ UnhandledRejection

Spec == Init /\ [][Next]_vars

TypeOK ==
  /\ pc \in { "start", "idle", "parsed", "serve", "serve:createServer",
              "serve:listen", "serve:catch", "build", "build:build",
              "build:catch", "optimize", "optimize:resolveConfig",
              "optimize:optimizeDeps", "optimize:catch", "preview",
              "preview:preview", "preview:catch", "rejected", "serving", "done" }
  /\ exitStatus \in { 0, 1 }
  /\ exited \in BOOLEAN

-----------------------------------------------------------------------------
\* Properties

\* The tool-wide keys and short aliases the documentation lists.
DocumentedGlobalKeys ==
  { "debug", "filter", "config", "root", "base", "mode", "logLevel",
    "clearScreen", "d", "f", "c", "r", "m", "l" }

AllGlobalKeys == DocumentedGlobalKeys \cup { "--" }

CommandWords == { "serve", "build", "optimize", "preview" }

ContextOf(c) ==
  CASE c = "serve"    -> "error when starting dev server"
    [] c = "build"    -> "error during build"
    [] c = "optimize" -> "error when optimizing deps"
    [] c = "preview"  -> "error when starting preview server"
    [] OTHER          -> ""

ModuleOf(c) ==
  CASE c = "serve"    -> "server"
    [] c = "build"    -> "build"
    [] c = "optimize" -> "optimizer"
    [] c = "preview"  -> "preview"
    [] OTHER          -> ""

CatchPcs == { "serve:catch", "build:catch", "optimize:catch", "preview:catch" }

\* r holds exactly the keys of m outside G, each with the value it has in m.
FilteredBy(m, r, G) ==
  /\ DOMAIN r \cap G = {}
  /\ DOMAIN r \subseteq DOMAIN m
  /\ \A k \in (DOMAIN m) \ G : k \in DOMAIN r /\ r[k] = m[k]

\* C1, as stated: the result of cleanOptions holds exactly the keys of the
\* option bag that are outside the documented global-key set (debug, filter,
\* config, root, base, mode, logLevel, clearScreen, d, f, c, r, m, l), each
\* with its original value.
C1_FilterDropsExactlyDocumentedKeys ==
  ret # 0 => FilteredBy(input.options, heap[ret], DocumentedGlobalKeys)

\* C1, amended: the result of cleanOptions holds exactly the keys of the
\* option bag that are outside the documented global-key set extended with
\* the key '--', each with its original value.
C1_FilterDropsExactlyGlobalKeys ==
  ret # 0 => FilteredBy(input.options, heap[ret], AllGlobalKeys)

C1_Witness ==
  /\ ret # 0
  /\ pc = "serve:listen"
  /\ DOMAIN input.options \cap AllGlobalKeys # {}
  /\ DOMAIN input.options \ AllGlobalKeys # {}

UnregisteredWord ==
  Len(input.args) > 0 /\ input.args[1] \notin CommandWords

\* C2, as stated: once argv is parsed, a command word that is not serve,
\* build, optimize or preview selects no command and no handler runs.
C2_UnregisteredYieldsUnknownCommand ==
  (UnregisteredWord /\ pc \notin { "start", "idle" }) =>
    (matched = "" /\ handlersRun = 0)

\* C2, amended: once argv is parsed, a command word that is not serve, build,
\* optimize or preview selects the default command (serve) with that word as
\* its root, and that handler is the one that runs.
C2_UnregisteredRunsDefaultCommand ==
  (UnregisteredWord /\ pc \notin { "start", "idle" }) =>
    /\ matched = "serve"
    /\ root = input.args[1]
    /\ pc # "parsed" => handlersRun = 1
    /\ \A i \in DOMAIN calls : calls[i].fn \in { "createServer", "listen" }

C2_Witness ==
  /\ UnregisteredWord
  /\ Len(calls) = 1
  /\ calls[1].fn = "createServer"
  /\ calls[1].config["root"] = "foo"

\* C3: when a subsystem call of the handler has thrown and the process has
\* ended, the exit status is 1 and exactly one error line was logged, with
\* the context string of the command.
C3_SubsystemThrowLogsOnceAndExitsOne ==
  (pc = "done" /\ \E i \in DOMAIN calls : calls[i].outcome # "ok") =>
    /\ exitStatus = 1
    /\ Len(log) = 1
    /\ log[1].context = ContextOf(matched)

\* C4: when an error was raised at any suspension point of the handler
\* (module activation included) and the process has ended, the error was
\* logged with the command's context and the exit status is 1.
C4_EveryHandlerFailureIsCoordinated ==
  (pc = "done" /\ e # "") =>
    /\ exitStatus = 1
    /\ Len(log) = 1
    /\ log[1].context = ContextOf(matched)
    /\ log[1].detail = e

\* C5: a subsystem module is loaded only once a handler has been started, and
\* then only the module of the selected command.
C5_SubsystemModulesLoadLazily ==
  \A m \in loaded : handlersRun = 1 /\ m = ModuleOf(matched)

\* C6: a catch block always completes: whatever value was caught, it logs
\* one line and ends the process with exit status 1.
CatchCompletes ==
  pc \in CatchPcs =>
    (pc' = "done" /\ exited' /\ exitStatus' = 1 /\ Len(log') = Len(log) + 1)

C6_CatchBlockNeverFails == [][CatchCompletes]_vars

C8_CleanOptionsIdempotentAndPure ==
  ret # 0 =>
    /\ ret # options
    /\ heap[options] = input.options
    /\ LET again == cleanOptions(heap, ret)
       IN  /\ again.heap[again.ret] = heap[ret]
           /\ again.heap[ret] = heap[ret]
           /\ again.heap[options] = input.options

C8_Witness ==
  /\ ret # 0
  /\ pc = "build:build"
  /\ DOMAIN input.options \cap AllGlobalKeys # {}
  /\ heap[ret] # heap[options]

OptimizeCalls == { i \in DOMAIN calls : calls[i].fn = "optimizeDeps" }
ResolveCalls == { i \in DOMAIN calls : calls[i].fn = "resolveConfig" }

\* C9: for optimize with --force, the resolver is called first, with exactly
\* root, base, configFile and logLevel and the command build; the optimizer is
\* called only after the resolver succeeded, at most once, with that config,
\* force = true and isManualInvocation = true; it has been called exactly once
\* as soon as the handler is past that call; a failed resolution leaves it
\* uncalled.
C9_OptimizeForce ==
  (matched = "optimize" /\ Get(input.options, "force") = "true") =>
    /\ \A i \in ResolveCalls :
         /\ i = 1
         /\ calls[i].config =
              [k \in { "root", "base", "configFile", "logLevel" } |->
                 CASE k = "root"       -> root
                   [] k = "base"       -> Get(input.options, "base")
                   [] k = "configFile" -> Get(input.options, "config")
                   [] k = "logLevel"   -> Get(input.options, "logLevel")]
         /\ calls[i].a2 = "build"
    /\ \A i \in OptimizeCalls :
         /\ i = 2
         /\ calls[1].fn = "resolveConfig"
         /\ calls[1].outcome = "ok"
         /\ calls[i].config = calls[1].config
         /\ calls[i].a2 = "true"
         /\ calls[i].a3 = "true"
    /\ (\E i \in ResolveCalls : calls[i].outcome # "ok") => OptimizeCalls = {}
    /\ (/\ \E i \in ResolveCalls : calls[i].outcome = "ok"
        /\ pc # "optimize:optimizeDeps") => Cardinality(OptimizeCalls) = 1

C9_Witness ==
  /\ matched = "optimize"
  /\ Get(input.options, "force") = "true"
  /\ pc = "done"
  /\ Len(calls) = 2
  /\ calls[2].outcome = "ok"

\* The dispatcher state of the documentation, read off the process position.
DispatcherState ==
  CASE pc \in { "start", "idle" }                -> "Idle"
    [] pc = "parsed"                             -> "Parsed"
    [] pc \in CatchPcs \cup { "rejected" }       -> "Failed"
    [] pc = "done" /\ e # ""                     -> "Failed"
    [] pc = "serving"                            -> "Succeeded"
    [] pc = "done" /\ e = ""                     -> "Succeeded"
    [] OTHER                                     -> "Dispatching"

Rank(s) ==
  CASE s = "Idle" -> 0 [] s = "Parsed" -> 1 [] s = "Dispatching" -> 2 [] OTHER -> 3

\* C10: the dispatcher state only moves forward along Idle, Parsed,
\* Dispatching, then Succeeded or Failed, which are final; one handler runs;
\* a failed run ends with exit status 1 and a successful one never does.
ForwardStep ==
  /\ Rank(DispatcherState') >= Rank(DispatcherState)
  /\ Rank(DispatcherState') <= Rank(DispatcherState) + 1
  /\ Rank(DispatcherState) = 3 => DispatcherState' = DispatcherState

Outcome ==
  /\ handlersRun <= 1
  /\ Rank(DispatcherState) >= 2 => handlersRun = 1
  /\ (DispatcherState = "Failed" /\ pc = "done") => (exited /\ exitStatus = 1)
  /\ DispatcherState = "Succeeded" => ~(exited /\ exitStatus = 1)

C10_Lifecycle == [][ForwardStep]_vars /\ []Outcome

====
